---- MODULE Spec2Model ----
(***************************************************************************)
(* Model of the card-value backend (eBay comps server): the shared-secret  *)
(* gate, the OAuth token cache, query building, comp normalisation, the     *)
(* per-bucket search orchestrator with its one-shot broadened search, and   *)
(* the single- and multi-bucket routes.                                     *)
(*                                                                          *)
(* JavaScript strings that the code transforms (buckets, tightness, domain, *)
(* identity text fields, keywords) are sequences of one-character strings,  *)
(* so that toUpperCase, startsWith, replace, join, the whitespace collapse  *)
(* and trim are modelled by what they do.  JavaScript values are tagged     *)
(* records (undefined, null, string, boolean); JavaScript numbers are       *)
(* tagged records (finite integer, NaN, +-Infinity).                        *)
(***************************************************************************)
EXTENDS Integers, Sequences, FiniteSets, TLC

\* ------------------------------------------------------------------ bounds
\* Longest marketplace response of the generated family (must exceed the
\* 12-comp cap of the result and the 6-comp thin threshold).
MaxItems == 13
\* Longest explicit bucket list of a multi request (must exceed the cap).
MaxBuckets == 13
\* Longest raw item list handed to normalizeComps in SpecNorm.
MaxRawLen == 3
\* Number of getEbayAppToken calls in SpecTok.
MaxTokenCalls == 4
\* Number of clock ticks in SpecTok.
MaxTicks == 6
\* Longest sample of all-in prices given to trimmedRange and median.
MaxSample == 14
\* Concurrent callers of getEbayAppToken.
NumCallers == 3
\* Clock steps taken while the concurrent callers run.
MaxConTicks == 1

\* ------------------------------------------------------- JavaScript values
Undefined == [t |-> "undefined"]
Null == [t |-> "null"]
Str(s) == [t |-> "string", s |-> s]
Bool(b) == [t |-> "boolean", b |-> b]

\* JavaScript numbers: a finite integer, NaN, or an infinity (v is its sign).
Num(n) == [t |-> "number", k |-> "fin", v |-> n]
NaN == [t |-> "number", k |-> "nan", v |-> 0]
Infinity == [t |-> "number", k |-> "inf", v |-> 1]
NegInfinity == [t |-> "number", k |-> "inf", v |-> -1]

IsNullish(v) == v.t \in {"undefined", "null"}

\* Truthiness of a tagged value (strings: non-empty; booleans: themselves).
Truthy(v) ==
  CASE v.t = "string" -> Len(v.s) > 0
    [] v.t = "boolean" -> v.b
    [] v.t = "number" -> v.k = "inf" \/ (v.k = "fin" /\ v.v # 0)
    [] OTHER -> FALSE

\* ------------------------------------------------------ JavaScript strings
LowerAlphabet ==
  << "a", "b", "c", "d", "e", "f", "g", "h", "i", "j", "k", "l", "m",
     "n", "o", "p", "q", "r", "s", "t", "u", "v", "w", "x", "y", "z" >>
UpperAlphabet ==
  << "A", "B", "C", "D", "E", "F", "G", "H", "I", "J", "K", "L", "M",
     "N", "O", "P", "Q", "R", "S", "T", "U", "V", "W", "X", "Y", "Z" >>

UpperChar(c) ==
  IF \E i \in 1..Len(LowerAlphabet) : LowerAlphabet[i] = c
    THEN UpperAlphabet[CHOOSE i \in 1..Len(LowerAlphabet) : LowerAlphabet[i] = c]
    ELSE c
LowerChar(c) ==
  IF \E i \in 1..Len(UpperAlphabet) : UpperAlphabet[i] = c
    THEN LowerAlphabet[CHOOSE i \in 1..Len(UpperAlphabet) : UpperAlphabet[i] = c]
    ELSE c

toUpperCase(s) == [i \in 1..Len(s) |-> UpperChar(s[i])]
toLowerCase(s) == [i \in 1..Len(s) |-> LowerChar(s[i])]

startsWith(s, p) == Len(s) >= Len(p) /\ SubSeq(s, 1, Len(p)) = p

\* Index of the first occurrence of pat in s, 0 when there is none.
indexOf(s, pat) ==
  LET hits == { i \in 1..(Len(s) - Len(pat) + 1) : SubSeq(s, i, i + Len(pat) - 1) = pat }
  IN IF Len(pat) > Len(s) \/ hits = {} THEN 0
     ELSE CHOOSE i \in hits : \A j \in hits : i <= j

\* String.prototype.replace with a string pattern: the first occurrence only.
replace(s, pat, rep) ==
  LET i == indexOf(s, pat)
  IN IF i = 0 THEN s
     ELSE SubSeq(s, 1, i - 1) \o rep \o SubSeq(s, i + Len(pat), Len(s))

IsWs(c) == c = " "

RECURSIVE trimStart(_)
trimStart(s) == IF s # << >> /\ IsWs(Head(s)) THEN trimStart(Tail(s)) ELSE s
RECURSIVE trimEnd(_)
trimEnd(s) ==
  IF s # << >> /\ IsWs(s[Len(s)]) THEN trimEnd(SubSeq(s, 1, Len(s) - 1)) ELSE s
trim(s) == trimEnd(trimStart(s))

\* s.replace(/\s+/g, " "): every run of whitespace becomes one space.
RECURSIVE collapseWs(_)
collapseWs(s) ==
  IF s = << >> THEN << >>
  ELSE IF IsWs(Head(s))
    THEN << " " >> \o collapseWs(trimStart(s))
    ELSE << Head(s) >> \o collapseWs(Tail(s))

\* Array.prototype.join over a sequence of strings.
RECURSIVE join(_, _)
join(parts, sep) ==
  IF parts = << >> THEN << >>
  ELSE IF Len(parts) = 1 THEN parts[1]
  ELSE parts[1] \o sep \o join(Tail(parts), sep)

\* ------------------------------------------------------------- validation
isNonEmptyString(v) == v.t = "string" /\ Len(trim(v.s)) > 0

\* ---------------------------------------------------------------- buckets
RAW == << "R", "A", "W" >>
PSA_10 == << "P", "S", "A", "_", "1", "0" >>
PSA_9 == << "P", "S", "A", "_", "9" >>
BGS_9_5 == << "B", "G", "S", "_", "9", "_", "5" >>
SGC_10 == << "S", "G", "C", "_", "1", "0" >>
CGC_10 == << "C", "G", "C", "_", "1", "0" >>

DEFAULT_BUCKETS_SPORTS == << RAW, PSA_10, PSA_9, BGS_9_5, SGC_10 >>
DEFAULT_BUCKETS_POKEMON == << RAW, PSA_10, PSA_9, BGS_9_5, SGC_10, CGC_10 >>

\* normalizeBucket(b) = String(b || "").toUpperCase(), b a string or nullish.
normalizeBucket(b) == toUpperCase(IF Truthy(b) THEN b.s ELSE << >>)

\* ----------------------------------------------------------- tightness
NORMAL == << "N", "O", "R", "M", "A", "L" >>
STRICT == << "S", "T", "R", "I", "C", "T" >>
LOOSE == << "L", "O", "O", "S", "E" >>

pokemon == << "p", "o", "k", "e", "m", "o", "n" >>

\* ---------------------------------------------------------- query building
RECURSIVE nonEmptyStrings(_)
nonEmptyStrings(vs) ==
  IF vs = << >> THEN << >>
  ELSE (IF isNonEmptyString(Head(vs)) THEN << Head(vs).s >> ELSE << >>)
       \o nonEmptyStrings(Tail(vs))

buildBaseKeywords(identity) ==
  LET parts ==
        nonEmptyStrings(<< identity.year, identity.set, identity.subject,
                           identity.cardNumber, identity.variant,
                           identity.serialNumbered >>)
        \o nonEmptyStrings(identity.extraKeywords)
        \o nonEmptyStrings(<< identity.language >>)
  IN trim(collapseWs(join(parts, << " " >>)))

GraderPrefix(g) == g \o << "_" >>

bucketKeywords(bucket) ==
  LET grade(g) == replace(replace(bucket, GraderPrefix(g), << >>), << "_" >>, << "." >>)
      PSA == << "P", "S", "A" >>
      BGS == << "B", "G", "S" >>
      SGC == << "S", "G", "C" >>
      CGC == << "C", "G", "C" >>
  IN IF bucket = RAW THEN << << "r", "a", "w" >> >>
     ELSE IF startsWith(bucket, GraderPrefix(PSA)) THEN << PSA, grade(PSA) >>
     ELSE IF startsWith(bucket, GraderPrefix(BGS)) THEN << BGS, grade(BGS) >>
     ELSE IF startsWith(bucket, GraderPrefix(SGC)) THEN << SGC, grade(SGC) >>
     ELSE IF startsWith(bucket, GraderPrefix(CGC)) THEN << CGC, grade(CGC) >>
     ELSE << >>

\* Set.prototype.add on an insertion-ordered set kept as a sequence.
setAdd(negatives, x) ==
  IF \E i \in 1..Len(negatives) : negatives[i] = x THEN negatives
  ELSE Append(negatives, x)

RECURSIVE addAll(_, _)
addAll(negatives, xs) ==
  IF xs = << >> THEN negatives ELSE addAll(setAdd(negatives, Head(xs)), Tail(xs))

GlobalJunk == << "lot", "reprint", "proxy", "custom", "digital", "case", "break" >>
GraderTerms == << "PSA", "BGS", "SGC", "CGC", "graded", "slab" >>
AutoTerms == << "auto", "autograph" >>
PatchTerms == << "patch", "relic", "jersey" >>
PokemonJunk == << "online code", "energy" >>

\* String(identity.domain || "").toLowerCase()
domainOf(identity) ==
  toLowerCase(IF Truthy(identity.domain) THEN identity.domain.s ELSE << >>)

buildNegativesNoTightness(identity, bucket, queryTightness) ==
  LET n1 == addAll(<< >>, GlobalJunk)
      n2 == IF bucket = RAW THEN addAll(n1, GraderTerms) ELSE n1
      n3 == IF identity.isAuto = Bool(FALSE) THEN addAll(n2, AutoTerms) ELSE n2
      n4 == IF identity.isPatch = Bool(FALSE) THEN addAll(n3, PatchTerms) ELSE n3
  IN IF domainOf(identity) = pokemon THEN addAll(n4, PokemonJunk) ELSE n4

buildNegatives(identity, bucket, queryTightness) ==
  LET n1 == addAll(<< >>, GlobalJunk)
      n2 == IF bucket = RAW THEN addAll(n1, GraderTerms) ELSE n1
      n3 == IF identity.isAuto = Bool(FALSE) THEN addAll(n2, AutoTerms) ELSE n2
      n4 == IF identity.isPatch = Bool(FALSE) THEN addAll(n3, PatchTerms) ELSE n3
  IN IF domainOf(identity) = pokemon /\ queryTightness # LOOSE
       THEN addAll(n4, PokemonJunk)
       ELSE n4

buildQuery(identity, bucket, queryTightness) ==
  trim(collapseWs(buildBaseKeywords(identity) \o << " " >>
                  \o join(bucketKeywords(bucket), << " " >>)))

\* ------------------------------------------------------ JavaScript numbers
isFinite(x) == x.t = "number" /\ x.k = "fin"

\* x + y on numbers.
numAdd(x, y) ==
  IF x.k = "nan" \/ y.k = "nan" THEN NaN
  ELSE IF x.k = "inf" /\ y.k = "inf" THEN (IF x.v = y.v THEN x ELSE NaN)
  ELSE IF x.k = "inf" THEN x
  ELSE IF y.k = "inf" THEN y
  ELSE Num(x.v + y.v)

\* x > 0 on numbers (false for NaN).
numPositive(x) == (x.k = "fin" /\ x.v > 0) \/ (x.k = "inf" /\ x.v > 0)

Digits == << "0", "1", "2", "3", "4", "5", "6", "7", "8", "9" >>
IsDigit(c) == \E i \in 1..Len(Digits) : Digits[i] = c
DigitValue(c) == (CHOOSE i \in 1..Len(Digits) : Digits[i] = c) - 1

RECURSIVE parseDigits(_, _)
parseDigits(s, acc) ==
  IF s = << >> THEN acc ELSE parseDigits(Tail(s), acc * 10 + DigitValue(Head(s)))

InfinityText == << "I", "n", "f", "i", "n", "i", "t", "y" >>

\* Unsigned numeric literal (integer literals and Infinity; the inputs of the
\* model carry no fractional literals).
parseUnsigned(s) ==
  IF s = InfinityText THEN Infinity
  ELSE IF s # << >> /\ \A i \in 1..Len(s) : IsDigit(s[i]) THEN Num(parseDigits(s, 0))
  ELSE NaN

numNegate(x) == IF x.k = "nan" THEN NaN ELSE [x EXCEPT !.v = 0 - x.v]

\* Number(v): the string-to-number conversion trims, maps "" to 0, accepts a
\* sign, and yields NaN for anything that is not a numeric literal.
Number(v) ==
  CASE v.t = "number" -> v
    [] v.t = "undefined" -> NaN
    [] v.t = "null" -> Num(0)
    [] v.t = "boolean" -> (IF v.b THEN Num(1) ELSE Num(0))
    [] v.t = "string" ->
         LET s == trim(v.s)
         IN IF s = << >> THEN Num(0)
            ELSE IF Head(s) = "-" THEN numNegate(parseUnsigned(Tail(s)))
            ELSE IF Head(s) = "+" THEN parseUnsigned(Tail(s))
            ELSE parseUnsigned(s)

\* a ?? b
nullish(a, b) == IF IsNullish(a) THEN b ELSE a

\* ------------------------------------------------------- comp normalisation
\* A raw item summary.  priceValue is it.price?.value, priceCurrency is
\* it.price?.currency, shippingCost is
\* it.shippingOptions?.[0]?.shippingCost?.value (Undefined when any link of
\* the chain is missing), buyingOptions is the list when it is an array and
\* the empty sequence otherwise.
toComp(it) ==
  LET price == Number(nullish(it.priceValue, Num(0)))
      shipping == Number(nullish(it.shippingCost, Num(0)))
      allIn == numAdd(price, IF isFinite(shipping) THEN shipping ELSE Num(0))
  IN [ title |-> nullish(it.title, Str(<< >>)),
       price |-> price,
       shipping |-> IF isFinite(shipping) THEN shipping ELSE Null,
       allIn |-> allIn,
       currency |-> nullish(it.priceCurrency, Str(<< "U", "S", "D" >>)),
       buyingOption |->
         IF \E i \in 1..Len(it.buyingOptions) : it.buyingOptions[i] = "AUCTION"
           THEN "AUCTION" ELSE "FIXED_PRICE",
       condition |-> nullish(it.condition, Null),
       endTime |-> nullish(it.itemEndDate, Null),
       url |-> nullish(it.itemWebUrl, Null),
       itemId |-> nullish(it.itemId, Null) ]

keepCompNonNegative(c) == Truthy(c.url) /\ isFinite(c.allIn) /\ c.allIn.v >= 0

\* The filter predicate of normalizeComps.
keepComp(c) == Truthy(c.url) /\ isFinite(c.allIn) /\ numPositive(c.allIn)

RECURSIVE filterComps(_)
filterComps(cs) ==
  IF cs = << >> THEN << >>
  ELSE (IF keepComp(Head(cs)) THEN << Head(cs) >> ELSE << >>) \o filterComps(Tail(cs))

normalizeComps(items) == filterComps([i \in 1..Len(items) |-> toComp(items[i])])

\* ---------------------------------------------------------------- statistics
RECURSIVE insertSorted(_, _)
insertSorted(arr, x) ==
  IF arr = << >> THEN << x >>
  ELSE IF x < Head(arr) THEN << x >> \o arr
  ELSE << Head(arr) >> \o insertSorted(Tail(arr), x)

\* [...nums].sort((a, b) => a - b) on finite numbers.
RECURSIVE sortAscending(_)
sortAscending(nums) ==
  IF nums = << >> THEN << >>
  ELSE insertSorted(sortAscending(Tail(nums)), Head(nums))

\* Exact values num/den stand for the floating-point results.
Rat(n, d) == [num |-> n, den |-> d]

median(nums) ==
  LET arr == sortAscending(nums)
      mid == Len(arr) \div 2
  IN IF Len(arr) % 2 = 1 THEN Rat(arr[mid + 1], 1)
     ELSE Rat(arr[mid] + arr[mid + 1], 2)

TrimPctNum == 15
TrimPctDen == 100
ThinSample == 6

\* trimmedRange without the trimming, for comparison.
trimmedRangeUntrimmed(nums) ==
  LET arr == sortAscending(nums)
  IN IF Len(arr) = 0 THEN << 0, 0 >> ELSE << arr[1], arr[Len(arr)] >>

trimmedRange(nums) ==
  LET arr == sortAscending(nums)
      trim_ == (Len(arr) * TrimPctNum) \div TrimPctDen
      sliced == SubSeq(arr, trim_ + 1, Len(arr) - trim_)
  IN IF Len(arr) = 0 THEN << 0, 0 >>
     ELSE IF Len(arr) < ThinSample THEN << arr[1], arr[Len(arr)] >>
     ELSE << sliced[1], sliced[Len(sliced)] >>

HighSample == 25
MediumSample == 10

confidenceFromSample(n) ==
  IF n >= HighSample THEN "high"
  ELSE IF n >= MediumSample THEN "medium"
  ELSE "low"

\* ------------------------------------------------------------ loosening
loosenIdentityKeepVariant(identity) ==
  [identity EXCEPT !.cardNumber = Null,
                   !.serialNumbered = nullish(identity.serialNumbered, Null)]

loosenIdentity(identity) ==
  [identity EXCEPT !.cardNumber = Null,
                   !.variant = Null,
                   !.serialNumbered = nullish(identity.serialNumbered, Null)]

\* ================================================================ state
VARIABLES
  env,          \* process environment: API_KEY, EBAY_CLIENT_ID, EBAY_CLIENT_SECRET
  tokenCache,   \* { accessToken, expiresAtMs }
  now,          \* Date.now(), in milliseconds
  ebay,         \* the upstream: token lifetime, tokens issued, scripted search responses
  tok,          \* the running call of getEbayAppToken
  tokCalls,     \* calls of getEbayAppToken made by the driver of SpecTok
  req,          \* the HTTP request being served
  pc,           \* position of the request in the middleware / route handler
  gb,           \* the running call of getBucketComps
  finalBuckets, \* the multi route's bucket list
  bi,           \* the multi route's loop position in finalBuckets
  results,      \* the multi route's results object
  res,          \* the HTTP response sent
  calls,        \* upstream calls made for the request, in order
  negStage, negIn, negOut,      \* a call of buildNegatives: position, arguments, result
  normStage, normIn, normOut,   \* a call of normalizeComps: position, argument, result
  trStage, trIn, trNums, trOut, medOut, \* trimmedRange and median called on one
                                \* array: position, the array as passed, the
                                \* caller's array now, the two results
  flights       \* concurrent calls of getEbayAppToken, one frame per caller

negVars == << negStage, negIn, negOut >>
normVars == << normStage, normIn, normOut >>
tokVars == << tokenCache, now, ebay, tok, tokCalls >>
\* What a call of getEbayAppToken leaves alone in its caller.
callerVars == << env, req, pc, gb, finalBuckets, bi, results, res >>
srvVars == << callerVars, calls >>
rangeVars == << trStage, trIn, trNums, trOut, medOut >>
pureVars == << negVars, normVars, rangeVars >>
conVars == << flights >>
vars == << tokVars, srvVars, pureVars, conVars >>

NegIdle == negStage = "idle" /\ negIn = << >> /\ negOut = << >>
NormIdle == normStage = "idle" /\ normIn = << >> /\ normOut = << >>
RangeIdle ==
  trStage = "idle" /\ trIn = << >> /\ trNums = << >> /\ trOut = << >> /\ medOut = << >>
ConIdle == flights = << >>

ClientId == Str(<< "i", "d" >>)
ClientSecret == Str(<< "s", "e", "c" >>)
Secret == Str(<< "k", "e", "y" >>)
WrongSecret == Str(<< "b", "a", "d" >>)

TokenCacheInit == [ accessToken |-> Null, expiresAtMs |-> 0 ]

TokIdle ==
  [ pc |-> "idle", ret |-> Null, source |-> "none", checkedAt |-> 0,
    cacheAt |-> TokenCacheInit ]

\* A call of getEbayAppToken entering the function.
TokCalled == [ TokIdle EXCEPT !.pc = "called" ]

EmptyScript == << << >> >>

SrvIdle ==
  /\ req = Null /\ pc = "idle" /\ gb = Null /\ finalBuckets = << >> /\ bi = 0
  /\ results = << >> /\ res = Null

\* The server at rest, for the specifications of single functions.
PureHostIdle ==
  /\ env = [ API_KEY |-> Undefined, EBAY_CLIENT_ID |-> ClientId,
             EBAY_CLIENT_SECRET |-> ClientSecret ]
  /\ tokenCache = TokenCacheInit
  /\ now = 0
  /\ ebay = [ expires_in |-> 0, issued |-> 0, script |-> EmptyScript, cursor |-> 1 ]
  /\ tok = TokIdle
  /\ tokCalls = 0
  /\ calls = << >>
  /\ SrvIdle /\ ConIdle

\* ------------------------------------------------- text used by the inputs
Pokemon == << "P", "o", "k", "e", "m", "o", "n" >>
sports == << "s", "p", "o", "r", "t", "s" >>
raw == << "r", "a", "w" >>
psa_10 == << "p", "s", "a", "_", "1", "0" >>
UNKNOWN == << "U", "N", "K", "N", "O", "W", "N" >>
OTHER_TIGHTNESS == << "F", "O", "O" >>

\* An identity with every field absent.
EmptyIdentity ==
  [ year |-> Undefined, set |-> Undefined, subject |-> Undefined,
    cardNumber |-> Undefined, variant |-> Undefined, serialNumbered |-> Undefined,
    extraKeywords |-> << >>, language |-> Undefined, domain |-> Undefined,
    isAuto |-> Undefined, isPatch |-> Undefined ]

\* ============================================== buildNegatives, on its own
NegFlags == { Undefined, Null, Bool(TRUE), Bool(FALSE) }
NegDomains == { Undefined, Null, Str(pokemon), Str(Pokemon), Str(sports), Str(<< >>) }
NegBuckets == { RAW, raw, PSA_10, CGC_10, UNKNOWN, << >> }
NegTightness == { NORMAL, STRICT, LOOSE, OTHER_TIGHTNESS }

NegInputs ==
  { [ identity |-> [EmptyIdentity EXCEPT !.isAuto = a, !.isPatch = p, !.domain = d],
      bucket |-> b, queryTightness |-> q ] :
    a \in NegFlags, p \in NegFlags, d \in NegDomains, b \in NegBuckets,
    q \in NegTightness }

NegInit ==
  /\ negStage = "called"
  /\ negIn \in NegInputs
  /\ negOut = << >>
  /\ NormIdle /\ RangeIdle /\ PureHostIdle

NegReturn ==
  /\ negStage = "called"
  /\ negOut' = buildNegatives(negIn.identity, negIn.bucket, negIn.queryTightness)
  /\ negStage' = "returned"
  /\ UNCHANGED << negIn, normVars, rangeVars, conVars, tokVars, srvVars >>

NegNext == NegReturn
SpecNeg == NegInit /\ [][NegNext]_vars

\* ============================================== normalizeComps, on its own
Txt10 == << "1", "0" >>
Txt5 == << "5" >>
Txt3 == << "3" >>
Txt2 == << "2" >>
Txt0 == << "0" >>
TxtNeg2 == << "-", "2" >>
TxtNeg5 == << "-", "5" >>
TxtGarbage == << "a", "b", "c" >>
Url(n) == Str(<< "h", "t", "t", "p", ":", "/", "/", n >>)
USD == << "U", "S", "D" >>
EUR == << "E", "U", "R" >>

\* A raw listing with the given item id, url, price value and shipping cost;
\* the pass-through fields are present.
RawItem(id, url, priceValue, shippingCost) ==
  [ itemId |-> id, itemWebUrl |-> url, priceValue |-> priceValue,
    priceCurrency |-> Str(USD), shippingCost |-> shippingCost,
    buyingOptions |-> << "FIXED_PRICE" >>, title |-> Str(<< "t" >>),
    condition |-> Str(<< "N", "e", "w" >>), itemEndDate |-> Undefined ]

RawItemKinds ==
  { RawItem(Str(<< "a" >>), Url("a"), Str(Txt10), Str(Txt3)),
    RawItem(Str(<< "b" >>), Undefined, Str(Txt10), Str(Txt3)),
    RawItem(Str(<< "c" >>), Str(<< >>), Str(Txt10), Undefined),
    RawItem(Str(<< "d" >>), Null, Str(Txt5), Undefined),
    RawItem(Str(<< "e" >>), Url("e"), Str(Txt0), Undefined),
    RawItem(Str(<< "f" >>), Url("f"), Undefined, Str(Txt5)),
    RawItem(Str(<< "g" >>), Url("g"), Str(TxtGarbage), Str(Txt3)),
    RawItem(Str(<< "h" >>), Url("h"), Str(Txt5), Str(TxtGarbage)),
    RawItem(Str(<< "i" >>), Url("i"), Str(Txt5), Str(InfinityText)),
    RawItem(Str(<< "j" >>), Url("j"), Str(InfinityText), Undefined),
    RawItem(Str(<< "k" >>), Url("k"), Str(Txt2), Str(TxtNeg5)),
    RawItem(Str(<< "l" >>), Url("l"), Str(TxtNeg2), Str(Txt5)),
    [ RawItem(Str(<< "m" >>), Url("m"), Num(2), Num(0))
        EXCEPT !.priceCurrency = Undefined, !.buyingOptions = << "AUCTION", "FIXED_PRICE" >>,
               !.title = Undefined, !.condition = Undefined ],
    RawItem(Str(<< "n" >>), Url("n"), Str(<< >>), Str(Txt0)) }

RECURSIVE SeqsUpTo(_, _)
SeqsUpTo(S, n) ==
  IF n = 0 THEN { << >> }
  ELSE LET shorter == SeqsUpTo(S, n - 1)
       IN shorter \cup { Append(q, x) : q \in { r \in shorter : Len(r) = n - 1 }, x \in S }

NormInit ==
  /\ normStage = "called"
  /\ normIn \in SeqsUpTo(RawItemKinds, MaxRawLen)
  /\ normOut = << >>
  /\ NegIdle /\ RangeIdle /\ PureHostIdle

NormReturn ==
  /\ normStage = "called"
  /\ normOut' = normalizeComps(normIn)
  /\ normStage' = "returned"
  /\ UNCHANGED << normIn, negVars, rangeVars, conVars, tokVars, srvVars >>

NormNext == NormReturn
SpecNorm == NormInit /\ [][NormNext]_vars

\* ------------------------------- trimmedRange and median, over all samples
\* A sample of n prices, out of order and with repeats: ((a*i + b) mod m) + 1.
Sample(n, a, b, m) == [ i \in 1..n |-> ((a * i + b) % m) + 1 ]

\* getBucketComps calls both on the all-in prices of a non-empty list of comps.
RangeInputs ==
  { Sample(n, a, b, m) : n \in 1..MaxSample, a \in 0..4, b \in 0..2, m \in { 3, 7, 13 } }
  \cup (SeqsUpTo(1..3, 3) \ { << >> })

RangeInit ==
  /\ trStage = "called"
  /\ trNums \in RangeInputs
  /\ trIn = trNums
  /\ trOut = << >>
  /\ medOut = << >>
  /\ NegIdle /\ NormIdle /\ PureHostIdle

\* trimmedRange(allIns) returns; it sorts a copy ([...nums]), the caller's
\* array is not written.
TrimmedRangeReturn ==
  /\ trStage = "called"
  /\ trOut' = trimmedRange(trNums)
  /\ trStage' = "ranged"
  /\ UNCHANGED << trIn, trNums, medOut, negVars, normVars, conVars, tokVars, srvVars >>

\* median(allIns) returns on the same array; it sorts a copy too.
MedianReturn ==
  /\ trStage = "ranged"
  /\ medOut' = << median(trNums) >>
  /\ trStage' = "returned"
  /\ UNCHANGED << trIn, trNums, trOut, negVars, normVars, conVars, tokVars, srvVars >>

RangeNext ==
  \/ TrimmedRangeReturn
  \/ MedianReturn

SpecRange == RangeInit /\ [][RangeNext]_vars

\* ======================================================== OAuth token cache
RefreshMarginMs == 60000
MsPerSecond == 1000
\* The clock advances in steps of half the refresh margin.
TickMs == RefreshMarginMs \div 2

\* Token lifetimes (expires_in, seconds) the identity provider may use: one
\* refresh margin, and two and four of them.
ExpiresInChoices ==
  { RefreshMarginMs \div MsPerSecond, 2 * (RefreshMarginMs \div MsPerSecond),
    4 * (RefreshMarginMs \div MsPerSecond) }

RECURSIVE decimal(_)
decimal(n) ==
  IF n < 10 THEN << Digits[n + 1] >> ELSE decimal(n \div 10) \o << Digits[(n % 10) + 1] >>

\* The n-th access token the identity provider issues.
Token(n) == Str(<< "t", "o", "k" >> \o decimal(n))

\* const API_KEY = process.env.API_KEY || null
API_KEY == IF Truthy(env.API_KEY) THEN env.API_KEY ELSE Null

credentialsMissing == ~Truthy(env.EBAY_CLIENT_ID) \/ ~Truthy(env.EBAY_CLIENT_SECRET)

cacheFreshNoMargin(cache, t) == Truthy(cache.accessToken) /\ cache.expiresAtMs - t > 0

\* tokenCache.accessToken && tokenCache.expiresAtMs - now > 60_000
cacheFresh(cache, t) ==
  Truthy(cache.accessToken) /\ cache.expiresAtMs - t > RefreshMarginMs

TokenRequest == [ kind |-> "token", at |-> now ]

\* getEbayAppToken up to its await: throw on missing credentials, return the
\* cached token, or post to the token endpoint.
TokCheck ==
  /\ tok.pc = "called"
  /\ IF credentialsMissing
       THEN /\ tok' = [ tok EXCEPT !.pc = "threw", !.source = "config",
                                   !.checkedAt = now, !.cacheAt = tokenCache ]
            /\ UNCHANGED calls
       ELSE IF cacheFresh(tokenCache, now)
         THEN /\ tok' = [ tok EXCEPT !.pc = "returned", !.source = "cache",
                                     !.ret = tokenCache.accessToken,
                                     !.checkedAt = now, !.cacheAt = tokenCache ]
              /\ UNCHANGED calls
         ELSE /\ tok' = [ tok EXCEPT !.pc = "await", !.source = "upstream",
                                     !.checkedAt = now, !.cacheAt = tokenCache ]
              /\ calls' = Append(calls, TokenRequest)
  /\ UNCHANGED << tokenCache, now, ebay, tokCalls, callerVars, pureVars, conVars >>

\* The token endpoint answers: the cache is written and the token returned.
TokRespondOk ==
  /\ tok.pc = "await"
  /\ LET access_token == Token(ebay.issued + 1)
     IN /\ tokenCache' = [ accessToken |-> access_token,
                           expiresAtMs |-> now + ebay.expires_in * MsPerSecond ]
        /\ tok' = [ tok EXCEPT !.pc = "returned", !.ret = access_token ]
  /\ ebay' = [ ebay EXCEPT !.issued = @ + 1 ]
  /\ UNCHANGED << now, tokCalls, calls, callerVars, pureVars, conVars >>

\* The token request fails (error status, timeout): axios.post rejects.
TokRespondFail ==
  /\ tok.pc = "await"
  /\ tok' = [ tok EXCEPT !.pc = "threw" ]
  /\ UNCHANGED << tokenCache, now, ebay, tokCalls, calls, callerVars, pureVars, conVars >>

\* ------------------------------------------- getEbayAppToken, over time
TokEnvs ==
  { [ API_KEY |-> Undefined, EBAY_CLIENT_ID |-> ClientId, EBAY_CLIENT_SECRET |-> ClientSecret ],
    [ API_KEY |-> Undefined, EBAY_CLIENT_ID |-> Undefined, EBAY_CLIENT_SECRET |-> ClientSecret ],
    [ API_KEY |-> Undefined, EBAY_CLIENT_ID |-> ClientId, EBAY_CLIENT_SECRET |-> Str(<< >>) ] }

TokInit ==
  /\ env \in TokEnvs
  /\ tokenCache = TokenCacheInit
  /\ now = 0
  /\ ebay \in { [ expires_in |-> e, issued |-> 0, script |-> EmptyScript, cursor |-> 1 ] :
                e \in ExpiresInChoices }
  /\ tok = TokIdle
  /\ tokCalls = 0
  /\ calls = << >>
  /\ SrvIdle /\ NegIdle /\ NormIdle /\ RangeIdle /\ ConIdle

\* Some request handler calls getEbayAppToken.
TokCall ==
  /\ tok.pc \in { "idle", "returned", "threw" }
  /\ tokCalls < MaxTokenCalls
  /\ tok' = TokCalled
  /\ tokCalls' = tokCalls + 1
  /\ calls' = << >>
  /\ UNCHANGED << tokenCache, now, ebay, callerVars, pureVars, conVars >>

\* Time passes.
Tick ==
  /\ now < MaxTicks * TickMs
  /\ now' = now + TickMs
  /\ UNCHANGED << tokenCache, ebay, tok, tokCalls, calls, callerVars, pureVars, conVars >>

TokNext ==
  \/ TokCall
  \/ TokCheck
  \/ TokRespondOk
  \/ TokRespondFail
  \/ Tick

SpecTok == TokInit /\ [][TokNext]_vars

\* ------------------------------ getEbayAppToken, called concurrently
\* Request handlers run getEbayAppToken without a lock.  Node runs each stretch
\* of the function between two awaits to completion: the stretch up to the
\* await of axios.post, and the stretch after it, are one step each.
Callers == 1..NumCallers

\* A caller's frame: the frame of getEbayAppToken, the response it received
\* and when it wrote the cache.
FlightIdle == TokIdle @@ [ resp |-> Null, wroteAt |-> 0 ]

\* A write that keeps the later of the cached and the new expiry, for comparison.
cacheWriteLatestExpiry(access_token, expires_in, t) ==
  [ accessToken |-> access_token,
    expiresAtMs |-> IF tokenCache.expiresAtMs > t + expires_in * MsPerSecond
                      THEN tokenCache.expiresAtMs
                      ELSE t + expires_in * MsPerSecond ]

\* tokenCache.accessToken = access_token;
\* tokenCache.expiresAtMs = Date.now() + Number(expires_in) * 1000
cacheWrite(access_token, expires_in, t) ==
  [ accessToken |-> access_token, expiresAtMs |-> t + expires_in * MsPerSecond ]

\* Token lifetimes the endpoint answers with: one refresh margin (never
\* fresh), and two of them (fresh for one margin).
ConExpiresIn ==
  { RefreshMarginMs \div MsPerSecond, 2 * (RefreshMarginMs \div MsPerSecond) }

TokenResponse(p, resp) ==
  [ kind |-> "token_response", caller |-> p, access_token |-> resp.access_token,
    expires_in |-> resp.expires_in, at |-> now ]

ConInit ==
  /\ env \in { e \in TokEnvs : Truthy(e.EBAY_CLIENT_SECRET) }
  /\ tokenCache = TokenCacheInit
  /\ now = 0
  /\ ebay = [ expires_in |-> 0, issued |-> 0, script |-> EmptyScript, cursor |-> 1 ]
  /\ tok = TokIdle
  /\ tokCalls = 0
  /\ calls = << >>
  /\ flights = [ p \in Callers |-> FlightIdle ]
  /\ SrvIdle /\ NegIdle /\ NormIdle /\ RangeIdle

\* A request handler calls getEbayAppToken; the callers are numbered in the
\* order of their calls.
ConCall(p) ==
  /\ flights[p].pc = "idle"
  /\ \A q \in Callers : q < p => flights[q].pc # "idle"
  /\ flights' = [ flights EXCEPT ![p].pc = "called" ]
  /\ UNCHANGED << tokVars, srvVars, pureVars >>

\* getEbayAppToken up to its await, in caller p.
ConCheck(p) ==
  /\ flights[p].pc = "called"
  /\ IF credentialsMissing
       THEN /\ flights' = [ flights EXCEPT ![p].pc = "threw", ![p].source = "config",
                                           ![p].checkedAt = now,
                                           ![p].cacheAt = tokenCache ]
            /\ UNCHANGED calls
       ELSE IF cacheFresh(tokenCache, now)
         THEN /\ flights' = [ flights EXCEPT ![p].pc = "returned", ![p].source = "cache",
                                             ![p].ret = tokenCache.accessToken,
                                             ![p].checkedAt = now,
                                             ![p].cacheAt = tokenCache ]
              /\ UNCHANGED calls
         ELSE /\ flights' = [ flights EXCEPT ![p].pc = "await", ![p].source = "upstream",
                                             ![p].checkedAt = now,
                                             ![p].cacheAt = tokenCache ]
              /\ calls' = Append(calls, TokenRequest)
  /\ UNCHANGED << tokenCache, now, ebay, tok, tokCalls, callerVars, pureVars >>

\* The token endpoint answers caller p, with a token lifetime of its choosing;
\* the responses arrive in any order.  The cache is written and the token
\* returned.
ConRespondOk(p) ==
  /\ flights[p].pc = "await"
  /\ \E e \in ConExpiresIn :
       LET access_token == Token(ebay.issued + 1)
           expires_in == e
           resp == [ access_token |-> access_token, expires_in |-> expires_in ]
       IN /\ tokenCache' = cacheWrite(access_token, expires_in, now)
          /\ flights' = [ flights EXCEPT ![p].pc = "returned", ![p].ret = access_token,
                                         ![p].resp = resp, ![p].wroteAt = now ]
          /\ calls' = Append(calls, TokenResponse(p, resp))
  /\ ebay' = [ ebay EXCEPT !.issued = @ + 1 ]
  /\ UNCHANGED << now, tok, tokCalls, callerVars, pureVars >>

\* Caller p's request fails (error status, timeout, response lost): axios.post
\* rejects and getEbayAppToken throws.
ConRespondFail(p) ==
  /\ flights[p].pc = "await"
  /\ flights' = [ flights EXCEPT ![p].pc = "threw" ]
  /\ UNCHANGED << tokVars, srvVars, pureVars >>

\* Time passes, one refresh margin at a time.
ConTick ==
  /\ now < MaxConTicks * RefreshMarginMs
  /\ now' = now + RefreshMarginMs
  /\ UNCHANGED << tokenCache, ebay, tok, tokCalls, srvVars, pureVars, conVars >>

ConNext ==
  \/ \E p \in Callers : ConCall(p)
  \/ \E p \in Callers : ConCheck(p)
  \/ \E p \in Callers : ConRespondOk(p)
  \/ \E p \in Callers : ConRespondFail(p)
  \/ ConTick

SpecCon == ConInit /\ [][ConNext]_vars

\* ============================================================ the server
FIXED_PRICE == << "F", "I", "X", "E", "D", "_", "P", "R", "I", "C", "E" >>
AUCTION == << "A", "U", "C", "T", "I", "O", "N" >>
Arr(a) == [ t |-> "array", a |-> a ]

MaxComps == 12
DefaultMaxResults == 60
DefaultMaxResultsPerBucket == 50
MinLimit == 5
MaxLimit == 200

Max(a, b) == IF a >= b THEN a ELSE b
Min(a, b) == IF a <= b THEN a ELSE b

\* { isAuto: false, isPatch: false, ...identity }: a key the caller gave wins.
withDefaults(identity) ==
  [ identity EXCEPT !.isAuto = IF @ = Undefined THEN Bool(FALSE) ELSE @,
                    !.isPatch = IF @ = Undefined THEN Bool(FALSE) ELSE @ ]

\* (queryTightness || "NORMAL").toUpperCase()
tightnessOf(body) ==
  toUpperCase(IF Truthy(body.queryTightness) THEN body.queryTightness.s ELSE NORMAL)

\* includeBuyingOptions || ["FIXED_PRICE", "AUCTION"]
buyingOptionsOf(body) ==
  IF body.includeBuyingOptions.t = "array" THEN body.includeBuyingOptions.a
  ELSE << FIXED_PRICE, AUCTION >>

\* The buyingOptions filter of ebaySearch: the recognised options, upper-cased
\* (the empty sequence when no filter parameter is set).
buyingOptionsFilter(includeBuyingOptions) ==
  SelectSeq([ i \in 1..Len(includeBuyingOptions) |-> toUpperCase(includeBuyingOptions[i]) ],
            LAMBDA x : x = FIXED_PRICE \/ x = AUCTION)

\* The request ebaySearch sends; keywords and negatives are kept apart (q is
\* the keywords followed by each negative with a leading "-").
SearchRequest(b, token, keywords, negatives, includeBuyingOptions, limit) ==
  [ kind |-> "search", b |-> b, token |-> token, keywords |-> keywords,
    negatives |-> negatives, limit |-> Max(MinLimit, Min(limit, MaxLimit)),
    filter |-> buyingOptionsFilter(includeBuyingOptions),
    outcome |-> "pending", items |-> << >> ]

\* The call frame of getBucketComps({ identity, bucket, queryTightness, ... }).
GbCall(identity, bucket, queryTightness, includeBuyingOptions, maxResults) ==
  [ identity |-> identity, bucket |-> bucket, queryTightness |-> queryTightness,
    includeBuyingOptions |-> includeBuyingOptions, maxResults |-> maxResults,
    token |-> Null, negatives |-> << >>, keywords |-> << >>,
    negatives2 |-> << >>, keywords2 |-> << >>, comps |-> << >>, loosened |-> FALSE ]

firstComps(comps) == SubSeq(comps, 1, Min(Len(comps), MaxComps))

\* The notes of the summary.
notesOf(sampleSize, loosened) ==
  IF sampleSize # 0
    THEN (IF loosened THEN << "Search was broadened due to limited comps." >> ELSE << >>)
    ELSE << "Insufficient comps returned for this bucket." >>

sampleSizeOfReturned(comps) == Len(firstComps(comps))

sampleSizeOf(comps) == Len(comps)

summaryOf(bucket, comps, loosened) ==
  LET allIns == [ i \in 1..Len(comps) |-> comps[i].allIn.v ]
      sampleSize == sampleSizeOf(comps)
      currency == IF sampleSize # 0 THEN comps[1].currency ELSE Str(USD)
  IN IF sampleSize # 0
       THEN [ bucket |-> bucket, currency |-> currency, sampleSize |-> sampleSize,
              medianAllIn |-> median(allIns), rangeAllIn |-> trimmedRange(allIns),
              confidence |-> confidenceFromSample(sampleSize),
              source |-> "EBAY_ACTIVE_LISTINGS", notes |-> notesOf(sampleSize, loosened) ]
       ELSE [ bucket |-> bucket, currency |-> currency, sampleSize |-> 0,
              medianAllIn |-> Rat(0, 1), rangeAllIn |-> << 0, 0 >>,
              confidence |-> "low",
              source |-> "EBAY_ACTIVE_LISTINGS", notes |-> notesOf(sampleSize, loosened) ]

\* queryUsed: the keywords variable, and the negatives of the first search.
queryUsedOf(frame, keywords, loosened) ==
  [ keywords |-> keywords, negatives |-> frame.negatives,
    buyingOptions |-> frame.includeBuyingOptions, loosened |-> loosened ]

\* What getBucketComps returns.
gbResult(frame, comps, keywords, loosened) ==
  [ summary |-> summaryOf(frame.bucket, comps, loosened),
    comps |-> firstComps(comps),
    queryUsed |-> queryUsedOf(frame, keywords, loosened) ]

UpstreamError ==
  [ error |-> "upstream_error",
    message |-> "Failed to fetch eBay comps. Check credentials, keyset status, and request shape.",
    details |-> "upstream" ]

Response(status, body) == [ status |-> status, body |-> body ]

isMulti == req.route = "POST /comps/ebay/multi"

\* comps.length < 6 && queryTightness !== "LOOSE"
needsFallback(comps, queryTightness) ==
  Len(comps) < ThinSample /\ queryTightness # LOOSE

MaxBucketsPerRequest == 12

\* Truthiness of a body field that is an object (an identity) or a tagged value.
truthyField(v) == IF "t" \in DOMAIN v THEN Truthy(v) ELSE TRUE

\* maxResults || fallback
limitOf(v, fallback) == IF Truthy(v) THEN v.v ELSE fallback

finalBucketsOfUncapped(body) ==
  IF body.buckets.t = "array" /\ Len(body.buckets.a) > 0
    THEN [ i \in 1..Len(body.buckets.a) |-> normalizeBucket(body.buckets.a[i]) ]
    ELSE IF domainOf(body.identity) = pokemon
      THEN DEFAULT_BUCKETS_POKEMON ELSE DEFAULT_BUCKETS_SPORTS

\* The bucket list of the multi route: the caller's, upper-cased, or the
\* default of the domain; the first 12 entries.
finalBucketsOf(body) ==
  LET given == IF body.buckets.t = "array" /\ Len(body.buckets.a) > 0
                 THEN [ i \in 1..Len(body.buckets.a) |-> normalizeBucket(body.buckets.a[i]) ]
                 ELSE IF domainOf(body.identity) = pokemon
                   THEN DEFAULT_BUCKETS_POKEMON ELSE DEFAULT_BUCKETS_SPORTS
  IN SubSeq(given, 1, Min(Len(given), MaxBucketsPerRequest))

\* ------------------------------------------------------------ middleware
authRejectsMissingOnly(provided) == API_KEY # Null /\ ~Truthy(provided)

\* if (!API_KEY) return next(); if (!provided || provided !== API_KEY) -> 401
authRejects(provided) ==
  API_KEY # Null /\ (~Truthy(provided) \/ provided # API_KEY)

Receive(r) ==
  /\ pc = "idle"
  /\ req' = r
  /\ pc' = "auth"
  /\ UNCHANGED << env, gb, finalBuckets, bi, results, res, calls, tokVars, pureVars, conVars >>

Auth ==
  /\ pc = "auth"
  /\ IF authRejects(req.apiKey)
       THEN /\ res' = Response(401, [ error |-> "unauthorized",
                                      message |-> "Missing/invalid x-api-key" ])
            /\ pc' = "done"
       ELSE /\ pc' = "route"
            /\ UNCHANGED res
  /\ UNCHANGED << env, req, gb, finalBuckets, bi, results, calls, tokVars, pureVars, conVars >>

\* ----------------------------------------------------------------- routes
RouteHome ==
  /\ pc = "route" /\ req.route = "GET /"
  /\ res' = Response(200, "Card Value Backend is running.")
  /\ pc' = "done"
  /\ UNCHANGED << env, req, gb, finalBuckets, bi, results, calls, tokVars, pureVars, conVars >>

RouteHealth ==
  /\ pc = "route" /\ req.route = "GET /health"
  /\ res' = Response(200, [ ok |-> TRUE ])
  /\ pc' = "done"
  /\ UNCHANGED << env, req, gb, finalBuckets, bi, results, calls, tokVars, pureVars, conVars >>

\* POST /comps/ebay up to the await of getBucketComps' token.
RouteSingle ==
  /\ pc = "route" /\ req.route = "POST /comps/ebay"
  /\ IF ~truthyField(req.body.identity) \/ ~Truthy(req.body.bucket)
       THEN /\ res' = Response(400, [ error |-> "bad_request",
                                      message |-> "identity and bucket are required" ])
            /\ pc' = "done"
            /\ UNCHANGED << gb, tok >>
       ELSE /\ gb' = GbCall(withDefaults(req.body.identity),
                            normalizeBucket(req.body.bucket), tightnessOf(req.body),
                            buyingOptionsOf(req.body),
                            limitOf(req.body.maxResults, DefaultMaxResults))
            /\ tok' = TokCalled
            /\ pc' = "bucket"
            /\ UNCHANGED res
  /\ UNCHANGED << env, req, finalBuckets, bi, results, calls, tokenCache, now, ebay,
                  tokCalls, pureVars, conVars >>

\* POST /comps/ebay/multi up to its loop.
RouteMulti ==
  /\ pc = "route" /\ isMulti
  /\ IF ~truthyField(req.body.identity)
       THEN /\ res' = Response(400, [ error |-> "bad_request",
                                      message |-> "identity is required" ])
            /\ pc' = "done"
            /\ UNCHANGED << finalBuckets, bi >>
       ELSE /\ finalBuckets' = finalBucketsOf(req.body)
            /\ bi' = 1
            /\ pc' = "multi"
            /\ UNCHANGED res
  /\ UNCHANGED << env, req, gb, results, calls, tokVars, pureVars, conVars >>

\* One turn of for (const b of finalBuckets): call getBucketComps for the next
\* bucket, or answer with the results when the list is exhausted.
MultiNext ==
  /\ pc = "multi"
  /\ IF bi > Len(finalBuckets)
       THEN /\ res' = Response(200, [ results |-> results ])
            /\ pc' = "done"
            /\ UNCHANGED << gb, tok >>
       ELSE /\ gb' = GbCall(withDefaults(req.body.identity), finalBuckets[bi],
                            tightnessOf(req.body), buyingOptionsOf(req.body),
                            limitOf(req.body.maxResultsPerBucket, DefaultMaxResultsPerBucket))
            /\ tok' = TokCalled
            /\ pc' = "bucket"
            /\ UNCHANGED res
  /\ UNCHANGED << env, req, finalBuckets, bi, results, calls, tokenCache, now, ebay,
                  tokCalls, pureVars, conVars >>

CatchWithPartialResults ==
  /\ res' = Response(502, [ error |-> "upstream_error", results |-> results ])
  /\ pc' = "done"

\* catch (err): 502 upstream_error.
Catch ==
  /\ res' = Response(502, UpstreamError)
  /\ pc' = "done"

\* ---------------------------------------------------------- getBucketComps
\* Index of the running bucket request within the HTTP request.
bucketIndex == IF isMulti THEN bi ELSE 1

\* getEbayAppToken threw: the route's catch answers.
GbTokenThrew ==
  /\ pc = "bucket" /\ tok.pc = "threw"
  /\ Catch
  /\ UNCHANGED << env, req, gb, finalBuckets, bi, results, calls, tokVars, pureVars, conVars >>

\* With the token: build the query and issue the first search.
GbSearch ==
  /\ pc = "bucket" /\ tok.pc = "returned"
  /\ LET negatives == buildNegatives(gb.identity, gb.bucket, gb.queryTightness)
         keywords == buildQuery(gb.identity, gb.bucket, gb.queryTightness)
     IN /\ gb' = [ gb EXCEPT !.token = tok.ret, !.negatives = negatives,
                             !.keywords = keywords ]
        /\ calls' = Append(calls, SearchRequest(bucketIndex, tok.ret, keywords, negatives,
                                                gb.includeBuyingOptions, gb.maxResults))
  /\ pc' = "search1"
  /\ UNCHANGED << env, req, finalBuckets, bi, results, res, tokVars, pureVars, conVars >>

\* The last upstream call, answered.
answered(outcome, items) ==
  [ calls EXCEPT ![Len(calls)] = [ @ EXCEPT !.outcome = outcome, !.items = items ] ]

\* The marketplace answers its next scripted response.
served == ebay.script[ebay.cursor]
ebayAdvanced == [ ebay EXCEPT !.cursor = (@ % Len(ebay.script)) + 1 ]

\* getBucketComps returns result to its route.
Return(result) ==
  IF isMulti
    THEN /\ results' = (gb.bucket :> result) @@ results
         /\ bi' = bi + 1
         /\ pc' = "multi"
         /\ UNCHANGED res
    ELSE /\ res' = Response(200, result)
         /\ pc' = "done"
         /\ UNCHANGED << results, bi >>

\* The first search answers: the broadened search is issued, or the summary
\* is built and returned.
Search1Ok ==
  /\ pc = "search1"
  /\ ebay' = ebayAdvanced
  /\ LET comps == normalizeComps(served)
     IN IF needsFallback(comps, gb.queryTightness)
          THEN LET looser == loosenIdentity(gb.identity)
                   negatives2 == buildNegatives(looser, gb.bucket, LOOSE)
                   keywords2 == buildQuery(looser, gb.bucket, LOOSE)
               IN /\ gb' = [ gb EXCEPT !.comps = comps, !.negatives2 = negatives2,
                                       !.keywords2 = keywords2 ]
                  /\ calls' = Append(answered("ok", served),
                                     SearchRequest(bucketIndex, gb.token, keywords2,
                                                   negatives2, gb.includeBuyingOptions,
                                                   gb.maxResults))
                  /\ pc' = "search2"
                  /\ UNCHANGED << results, bi, res >>
          ELSE /\ gb' = [ gb EXCEPT !.comps = comps ]
               /\ calls' = answered("ok", served)
               /\ Return(gbResult(gb, comps, gb.keywords, FALSE))
  /\ UNCHANGED << env, req, finalBuckets, tokenCache, now, tok, tokCalls, pureVars, conVars >>

\* Search2Ok keeping the larger of the two samples, for comparison.
Search2OkKeepLarger ==
  /\ pc = "search2"
  /\ ebay' = ebayAdvanced
  /\ LET comps2 == normalizeComps(served)
         comps == IF Len(comps2) < Len(gb.comps) THEN gb.comps ELSE comps2
     IN /\ gb' = [ gb EXCEPT !.comps = comps, !.keywords = gb.keywords2,
                             !.loosened = TRUE ]
        /\ calls' = answered("ok", served)
        /\ Return(gbResult(gb, comps, gb.keywords2, TRUE))
  /\ UNCHANGED << env, req, finalBuckets, tokenCache, now, tok, tokCalls, pureVars, conVars >>

\* The broadened search answers: the summary is built and returned.
Search2Ok ==
  /\ pc = "search2"
  /\ ebay' = ebayAdvanced
  /\ LET comps == normalizeComps(served)
     IN /\ gb' = [ gb EXCEPT !.comps = comps, !.keywords = gb.keywords2,
                             !.loosened = TRUE ]
        /\ calls' = answered("ok", served)
        /\ Return(gbResult(gb, comps, gb.keywords2, TRUE))
  /\ UNCHANGED << env, req, finalBuckets, tokenCache, now, tok, tokCalls, pureVars, conVars >>

\* A search fails (error status, timeout): axios.get rejects, the route's
\* catch answers.
SearchFail ==
  /\ pc \in { "search1", "search2" }
  /\ calls' = answered("failed", << >>)
  /\ Catch
  /\ UNCHANGED << env, req, gb, finalBuckets, bi, results, tokVars, pureVars, conVars >>

\* ------------------------------------------------------ requests and worlds
loose == << "l", "o", "o", "s", "e" >>

IdSports ==
  [ EmptyIdentity EXCEPT
      !.year = Str(<< "2", "0", "2", "0" >>),
      !.set = Str(<< "P", "r", "i", "z", "m" >>),
      !.subject = Str(<< "B", "u", "r", "r", "o", "w" >>),
      !.cardNumber = Str(<< "3", "1", "5" >>),
      !.variant = Str(<< " ", "S", "i", "l", "v", "e", "r", " ", " ", "W", "a", "v", "e" >>) ]

IdPokemon ==
  [ EmptyIdentity EXCEPT
      !.subject = Str(<< "P", "i", "k", "a", "c", "h", "u" >>),
      !.cardNumber = Str(<< "5", "8" >>),
      !.serialNumbered = Str(<< "/", "9", "9" >>),
      !.extraKeywords = << Str(<< "h", "o", "l", "o" >>), Null, Str(<< " " >>) >>,
      !.language = Str(<< "J", "P" >>),
      !.domain = Str(Pokemon),
      !.isAuto = Bool(TRUE) ]

IdBare ==
  [ EmptyIdentity EXCEPT
      !.subject = Str(<< "M", "e", "w" >>),
      !.domain = Str(pokemon),
      !.isPatch = Null ]

SrvIdentities == { IdSports, IdPokemon, IdBare }

SingleBody(identity, bucket, queryTightness) ==
  [ identity |-> identity, bucket |-> bucket, queryTightness |-> queryTightness,
    includeBuyingOptions |-> Undefined, maxResults |-> Undefined ]

MultiBody(identity, buckets, queryTightness) ==
  [ identity |-> identity, buckets |-> buckets, queryTightness |-> queryTightness,
    includeBuyingOptions |-> Undefined, maxResultsPerBucket |-> Undefined ]

\* A list of MaxBuckets distinct lower-case grader buckets: psa_1, psa_2, ...
LongBucketList ==
  [ i \in 1..MaxBuckets |-> Str(<< "p", "s", "a", "_" >> \o decimal(i)) ]

\* Omitted, not an array, empty, with a repeated and a null entry, too long.
BucketLists ==
  { Undefined, Str(raw), Arr(<< >>), Arr(<< Str(psa_10), Str(raw), Str(psa_10), Null >>),
    Arr(LongBucketList) }

SingleBodies ==
  { SingleBody(i, b, q) :
      i \in SrvIdentities \cup { Undefined },
      b \in { Undefined, Str(RAW), Str(psa_10), Str(UNKNOWN) },
      q \in { Undefined, Str(loose), Str(STRICT) } }
  \cup { [ SingleBody(IdSports, Str(raw), Str(<< >>)) EXCEPT
             !.includeBuyingOptions =
               Arr(<< << "a", "u", "c", "t", "i", "o", "n" >>, << "B", "I", "N" >> >>),
             !.maxResults = Num(500) ] }

MultiBodies ==
  { MultiBody(i, bs, q) :
      i \in SrvIdentities \cup { Undefined },
      bs \in BucketLists,
      q \in { Undefined, Str(loose) } }

Request(route, apiKey, body) == [ route |-> route, apiKey |-> apiKey, body |-> body ]

\* The x-api-key header: Undefined when the request carries none.
ApiKeyHeaders == { Undefined, Secret, WrongSecret }

Requests ==
  { Request("GET /", h, Undefined) : h \in ApiKeyHeaders }
  \cup { Request("GET /health", h, Undefined) : h \in ApiKeyHeaders }
  \cup { Request("POST /comps/ebay", h, SingleBody(IdSports, Str(RAW), Undefined)) :
           h \in ApiKeyHeaders }
  \cup { Request("POST /comps/ebay/multi", h, MultiBody(IdBare, Undefined, Undefined)) :
           h \in ApiKeyHeaders }
  \cup { Request("POST /comps/ebay", Secret, b) : b \in SingleBodies }
  \cup { Request("POST /comps/ebay/multi", Secret, b) : b \in MultiBodies }

\* The i-th listing of a generated response; its price varies out of order.
Listing(i) ==
  [ RawItem(Str(decimal(i)), Str(<< "u" >> \o decimal(i)), Num(((i * 7) % 11) + 1), Undefined)
      EXCEPT !.priceCurrency = IF i % 2 = 0 THEN Str(EUR) ELSE Undefined ]

\* A response of n listings of which every m-th has no URL (none when m = 0).
ResponseOf(n, m) ==
  [ i \in 1..n |->
      IF m > 0 /\ i % m = 0 THEN [ Listing(i) EXCEPT !.itemWebUrl = Undefined ]
      ELSE Listing(i) ]

\* Nothing; a thin sample; a thin sample among listings without URL; a
\* sample of exactly the threshold; more comps than a result returns.
ScriptResponses ==
  { ResponseOf(0, 0), ResponseOf(ThinSample - 1, 0), ResponseOf(ThinSample, 3),
    ResponseOf(ThinSample, 0), ResponseOf(MaxItems, 0) }

\* The marketplace serves the responses of its script in turn, cyclically.
Scripts == { << r1, r2 >> : r1 \in ScriptResponses, r2 \in ScriptResponses }

SrvEnvs ==
  { [ API_KEY |-> k, EBAY_CLIENT_ID |-> ClientId, EBAY_CLIENT_SECRET |-> ClientSecret ] :
      k \in { Undefined, Secret } }
  \cup { [ API_KEY |-> Str(<< >>), EBAY_CLIENT_ID |-> ClientId,
           EBAY_CLIENT_SECRET |-> Undefined ] }

Init ==
  /\ env \in SrvEnvs
  /\ tokenCache = TokenCacheInit
  /\ now = 0
  /\ ebay \in { [ expires_in |-> e, issued |-> 0, script |-> sc, cursor |-> 1 ] :
                e \in { RefreshMarginMs \div MsPerSecond,
                        4 * (RefreshMarginMs \div MsPerSecond) },
                sc \in Scripts }
  /\ tok = TokIdle
  /\ tokCalls = 0
  /\ calls = << >>
  /\ SrvIdle /\ NegIdle /\ NormIdle /\ RangeIdle /\ ConIdle

Next ==
  \/ \E r \in Requests : Receive(r)
  \/ Auth
  \/ RouteHome
  \/ RouteHealth
  \/ RouteSingle
  \/ RouteMulti
  \/ MultiNext
  \/ TokCheck
  \/ TokRespondOk
  \/ TokRespondFail
  \/ GbTokenThrew
  \/ GbSearch
  \/ Search1Ok
  \/ Search2Ok
  \/ SearchFail

Spec == Init /\ [][Next]_vars

\* ============================================================ properties
Elems(q) == { q[i] : i \in 1..Len(q) }
NoDuplicates(q) == \A i, j \in 1..Len(q) : q[i] = q[j] => i = j

\* ---- C10 ----
\* C10: for every identity, bucket and tightness, buildNegatives returns a
\* duplicate-free list whose elements are exactly: lot, reprint, proxy, custom,
\* digital, case, break (always, and first, in that order); PSA, BGS, SGC, CGC,
\* graded, slab iff the bucket is RAW; auto, autograph iff identity.isAuto is
\* exactly false; patch, relic, jersey iff identity.isPatch is exactly false;
\* "online code", "energy" iff the domain is pokemon (in any letter case) and
\* the tightness is not LOOSE.
C10_ExpectedNegatives ==
  {"lot", "reprint", "proxy", "custom", "digital", "case", "break"}
  \cup (IF negIn.bucket = << "R", "A", "W" >>
          THEN {"PSA", "BGS", "SGC", "CGC", "graded", "slab"} ELSE {})
  \cup (IF negIn.identity.isAuto = Bool(FALSE) THEN {"auto", "autograph"} ELSE {})
  \cup (IF negIn.identity.isPatch = Bool(FALSE) THEN {"patch", "relic", "jersey"} ELSE {})
  \cup (IF /\ negIn.identity.domain \in { Str(pokemon), Str(Pokemon) }
           /\ negIn.queryTightness # << "L", "O", "O", "S", "E" >>
          THEN {"online code", "energy"} ELSE {})

C10_NegativesExact ==
  negStage = "returned" =>
    /\ NoDuplicates(negOut)
    /\ Elems(negOut) = C10_ExpectedNegatives
    /\ SubSeq(negOut, 1, 7)
         = << "lot", "reprint", "proxy", "custom", "digital", "case", "break" >>

C10_Witness ==
  /\ negStage = "returned"
  /\ negIn.bucket = RAW
  /\ negIn.identity.isAuto = Bool(FALSE)
  /\ negIn.identity.isPatch = Null
  /\ negIn.identity.domain = Str(Pokemon)
  /\ negIn.queryTightness = STRICT
  /\ Len(negOut) = 17

\* ---- C5 ----
C5_Ids(q) == { q[i].itemId : i \in 1..Len(q) }

\* The numeric price of a raw item (0 when the price is missing).
C5_Price(it) == Number(nullish(it.priceValue, Num(0)))

\* Price plus shipping, shipping counted as 0 only when it is missing.
C5_SumMissingOnly(it) ==
  numAdd(C5_Price(it),
         IF IsNullish(it.shippingCost) THEN Num(0) ELSE Number(it.shippingCost))

\* Price plus shipping, shipping counted as 0 when it is missing or is not a
\* finite number.
C5_SumFiniteShipping(it) ==
  numAdd(C5_Price(it),
         IF IsNullish(it.shippingCost) \/ ~isFinite(Number(it.shippingCost))
           THEN Num(0) ELSE Number(it.shippingCost))

C5_HasUrl(it) == it.itemWebUrl.t = "string" /\ it.itemWebUrl.s # << >>

C5_PositiveFinite(x) == x.k = "fin" /\ x.v > 0

\* The retained comps are an order-preserving selection of the raw items.
C5_OrderKept ==
  \E f \in [1..Len(normOut) -> 1..Len(normIn)] :
    /\ \A j \in 1..Len(normOut) : normOut[j].itemId = normIn[f[j]].itemId
    /\ \A j, k \in 1..Len(normOut) : j < k => f[j] < f[k]

C5_CompsValid ==
  \A j \in 1..Len(normOut) :
    LET c == normOut[j]
    IN /\ c.url.t = "string" /\ c.url.s # << >>
       /\ c.allIn.k = "fin" /\ c.allIn.v > 0
       /\ c.price.k = "fin"
       /\ c.allIn.v = c.price.v + (IF c.shipping = Null THEN 0 ELSE c.shipping.v)

C6_TokenRequests == SelectSeq(calls, LAMBDA c : c.kind = "token")

\* The cache as getEbayAppToken found it holds no token, or a token whose
\* expiry is 60 seconds or less after the time of the call.
C6_Stale ==
  \/ tok.cacheAt.accessToken = Null
  \/ tok.cacheAt.expiresAtMs - tok.checkedAt <= 60000

C6_Decided == tok.pc \in { "await", "returned", "threw" }

C6_RefreshIffStale ==
  /\ Len(C6_TokenRequests) = (IF C6_Stale THEN 1 ELSE 0)
  /\ ~C6_Stale => /\ tok.pc = "returned"
                  /\ tok.ret = tok.cacheAt.accessToken
                  /\ tokenCache = tok.cacheAt

\* C6 as stated: getEbayAppToken calls the token endpoint iff the cache holds
\* no token or the cached token expires 60 seconds or less after the current
\* time; otherwise it returns the cached token without any upstream call.
C6_AsStated == C6_Decided => C6_RefreshIffStale

\* C6 amended: when EBAY_CLIENT_ID and EBAY_CLIENT_SECRET are both set,
\* getEbayAppToken calls the token endpoint iff the cache holds no token or the
\* cached token expires 60 seconds or less after the current time, and
\* otherwise returns the cached token without any upstream call, so a token
\* returned from the cache has more than 60 seconds left when it is returned;
\* when a credential is missing it throws without any upstream call.
C6_RefreshWhenStale ==
  C6_Decided =>
    /\ (Truthy(env.EBAY_CLIENT_ID) /\ Truthy(env.EBAY_CLIENT_SECRET))
         => C6_RefreshIffStale
    /\ (tok.pc = "returned" /\ tok.source = "cache")
         => /\ tok.ret = tok.cacheAt.accessToken
            /\ tok.ret # Null
            /\ tok.cacheAt.expiresAtMs - tok.checkedAt > 60000
    /\ ~(Truthy(env.EBAY_CLIENT_ID) /\ Truthy(env.EBAY_CLIENT_SECRET))
         => /\ tok.pc = "threw"
            /\ C6_TokenRequests = << >>
            /\ tokenCache = TokenCacheInit

C6_Witness ==
  /\ tok.pc = "returned"
  /\ tok.source = "cache"
  /\ tokCalls >= 2
  /\ tok.checkedAt > 0
  /\ tok.cacheAt.expiresAtMs - tok.checkedAt = 90000
  /\ calls = << >>

\* A refresh at the boundary: exactly 60 seconds left is not enough.
C6_BoundaryRefresh ==
  /\ tok.pc = "await"
  /\ tok.cacheAt.accessToken # Null
  /\ tok.cacheAt.expiresAtMs - tok.checkedAt = 60000

\* ------------------------------------------ bucket requests of a request
Serving == req # Null

\* The bucket requests (calls of getBucketComps) that have returned a result.
Completed ==
  IF ~Serving THEN {}
  ELSE IF isMulti THEN 1..(bi - 1)
  ELSE IF req.route = "POST /comps/ebay" /\ pc = "done" /\ res.status = 200 THEN {1}
  ELSE {}

\* The marketplace searches of bucket request j, in order.
Searches(j) == SelectSeq(calls, LAMBDA c : c.kind = "search" /\ c.b = j)

BucketOf(j) == IF isMulti THEN finalBuckets[j] ELSE gb.bucket

\* The bucket request that returned last, and its result.
HasLast == Completed # {}
Last == CHOOSE j \in Completed : \A k \in Completed : k <= j
LastResult == IF isMulti THEN results[finalBuckets[Last]] ELSE res.body
LastSearch == Searches(Last)[Len(Searches(Last))]

\* A raw listing that makes a valid comp: it has a URL and a positive, finite
\* all-in price.
ValidListing(it) == C5_HasUrl(it) /\ C5_PositiveFinite(C5_SumFiniteShipping(it))
ValidIds(items) ==
  LET kept == SelectSeq(items, ValidListing)
  IN [ i \in 1..Len(kept) |-> kept[i].itemId ]

\* ---- C1 ----
C1_Cleared(identity) == [ identity EXCEPT !.cardNumber = Null, !.variant = Null ]

\* C1: in every bucket request whose upstream calls succeed, a first search
\* with fewer than 6 valid comps at a tightness other than LOOSE is followed by
\* exactly one further search, built at LOOSE tightness from the identity with
\* cardNumber and variant cleared; otherwise no further search is issued; no
\* bucket request ever issues more than 2 searches.
C1_OneFallback ==
  Serving =>
    /\ \A j \in 1..MaxBuckets : Len(Searches(j)) <= 2
    /\ \A j \in Completed :
         LET S == Searches(j)
             thin == Len(ValidIds(S[1].items)) < 6
                     /\ gb.queryTightness # << "L", "O", "O", "S", "E" >>
         IN IF thin
              THEN /\ Len(S) = 2
                   /\ S[2].keywords
                        = buildQuery(C1_Cleared(gb.identity), BucketOf(j), LOOSE)
                   /\ S[2].negatives
                        = buildNegatives(C1_Cleared(gb.identity), BucketOf(j), LOOSE)
              ELSE Len(S) = 1

C1_Witness ==
  /\ Serving /\ pc = "done" /\ req.route = "POST /comps/ebay" /\ res.status = 200
  /\ req.body.identity = IdSports
  /\ Len(Searches(1)) = 2
  /\ Len(ValidIds(Searches(1)[1].items)) = 5
  /\ Searches(1)[2].keywords # Searches(1)[1].keywords

\* ---- C2 ----
\* C2: whenever the broadened re-search was performed, the notes of the
\* resulting summary include the broadening caveat, whatever number of comps
\* the broadened search returned.
C2_BroadeningNoted ==
  (HasLast /\ Len(Searches(Last)) = 2) =>
    "Search was broadened due to limited comps." \in Elems(LastResult.summary.notes)

\* ---- C3 ----
\* C3: queryUsed reports exactly the keywords and the negatives of the search
\* whose comps produced the summary (those of the broadened search when the
\* fallback ran).
C3_QueryUsedExact ==
  HasLast =>
    /\ LastResult.queryUsed.keywords = LastSearch.keywords
    /\ LastResult.queryUsed.negatives = LastSearch.negatives

\* ---- C4 ----
C4_FirstIds(ids) == SubSeq(ids, 1, IF Len(ids) < 12 THEN Len(ids) ELSE 12)

\* C4: a bucket request whose upstream calls all succeed returns a summary, at
\* most 12 comps (the first 12 of the normalized sample, in order) and
\* queryUsed; summary.sampleSize is the number of valid comps of the final
\* search; with no valid comp the summary has sampleSize 0, confidence "low",
\* medianAllIn 0, rangeAllIn [0, 0] and a non-empty notes list; a request is
\* answered 502 only when an upstream call failed or was refused.
C4_ResultShape ==
  /\ HasLast =>
       LET r == LastResult
           ids == ValidIds(LastSearch.items)
       IN /\ DOMAIN r = { "summary", "comps", "queryUsed" }
          /\ Len(r.comps) <= 12
          /\ [ i \in 1..Len(r.comps) |-> r.comps[i].itemId ] = C4_FirstIds(ids)
          /\ r.summary.sampleSize = Len(ids)
          /\ Len(ids) = 0 =>
               /\ r.summary.confidence = "low"
               /\ r.summary.medianAllIn = Rat(0, 1)
               /\ r.summary.rangeAllIn = << 0, 0 >>
               /\ r.summary.notes # << >>
  /\ (Serving /\ pc = "done" /\ res.status = 502) =>
       \/ tok.pc = "threw"
       \/ \E i \in 1..Len(calls) : calls[i].kind = "search" /\ calls[i].outcome = "failed"

C4_Witness ==
  /\ Serving /\ pc = "done" /\ req.route = "POST /comps/ebay" /\ res.status = 200
  /\ res.body.summary.sampleSize = 13
  /\ Len(res.body.comps) = 12
  /\ res.body.summary.confidence = "medium"

\* A bucket request that ends with no valid comp at all.
C4_ZeroSample ==
  /\ HasLast
  /\ LastResult.summary.sampleSize = 0
  /\ LastResult.comps = << >>

\* ---- C7 ----
\* The upper-cased form of the bucket entries the requests carry.
C7_Upper(b) ==
  IF b = Null THEN << >>
  ELSE IF b = Str(raw) THEN << "R", "A", "W" >>
  ELSE << "P", "S", "A", "_" >> \o SubSeq(b.s, 5, Len(b.s))

C7_Expected ==
  LET bs == req.body.buckets
  IN IF bs.t = "array" /\ bs.a # << >>
       THEN [ i \in 1..(IF Len(bs.a) < 12 THEN Len(bs.a) ELSE 12) |-> C7_Upper(bs.a[i]) ]
       ELSE IF req.body.identity.domain \in { Str(pokemon), Str(Pokemon) }
         THEN << RAW, PSA_10, PSA_9, BGS_9_5, SGC_10, CGC_10 >>
         ELSE << RAW, PSA_10, PSA_9, BGS_9_5, SGC_10 >>

\* C7: a multi request with an identity searches the default buckets of its
\* domain when buckets is omitted or not a non-empty array, and otherwise the
\* upper-cased first 12 entries of buckets, in order; getBucketComps runs once
\* per entry, in list order, never for more than 12 entries; on success the
\* keys of results are exactly the searched buckets.
C7_BucketsSearched ==
  (Serving /\ isMulti /\ req.body.identity # Undefined
     /\ (pc \in { "multi", "bucket", "search1", "search2" }
         \/ (pc = "done" /\ res.status \in { 200, 502 }))) =>
    /\ finalBuckets = C7_Expected
    /\ Len(finalBuckets) <= 12
    /\ \A i \in 1..Len(calls) : calls[i].kind = "search" => calls[i].b \in 1..Len(finalBuckets)
    /\ \A j \in Completed : Len(Searches(j)) >= 1
    /\ (pc = "done" /\ res.status = 200) =>
         /\ Completed = 1..Len(finalBuckets)
         /\ DOMAIN res.body.results = Elems(C7_Expected)

C7_Witness ==
  /\ Serving /\ isMulti /\ pc = "done" /\ res.status = 200
  /\ req.body.buckets = Arr(LongBucketList)
  /\ Len(LongBucketList) > 12
  /\ Cardinality(DOMAIN res.body.results) = 12

\* The default buckets of the pokemon domain, searched.
C7_PokemonDefaults ==
  /\ Serving /\ isMulti /\ pc = "done" /\ res.status = 200
  /\ req.body.buckets = Undefined
  /\ req.body.identity.domain = Str(Pokemon)
  /\ Cardinality(DOMAIN res.body.results) = 6

\* ---- C8 ----
C8_SearchFailed(c) == c.kind = "search" /\ c.outcome = "failed"
C8_TokenFailed == tok.pc = "threw" /\ tok.source = "upstream"

\* C8: once a token request or a search of a request has failed, no further
\* upstream call is made for the request (the failed call is its last), and
\* the request is answered 502 upstream_error with no summary and no results
\* mapping, also when earlier buckets had succeeded.
C8_NoRetryNoPartial ==
  (Serving /\ (C8_TokenFailed \/ \E i \in 1..Len(calls) : C8_SearchFailed(calls[i]))) =>
    /\ \A i \in 1..(Len(calls) - 1) : ~C8_SearchFailed(calls[i])
    /\ C8_TokenFailed => calls[Len(calls)].kind = "token"
    /\ pc \in { "bucket", "done" }
    /\ pc = "bucket" => C8_TokenFailed
    /\ pc = "done" =>
         /\ res.status = 502
         /\ res.body.error = "upstream_error"
         /\ DOMAIN res.body \cap { "summary", "comps", "queryUsed", "results" } = {}

C8_Witness ==
  /\ Serving /\ isMulti /\ pc = "done" /\ res.status = 502
  /\ bi >= 3
  /\ DOMAIN results # {}
  /\ C8_SearchFailed(calls[Len(calls)])
  /\ Len(Searches(bi)) = 2

\* ---- C9 ----
C9_SecretConfigured == env.API_KEY.t = "string" /\ env.API_KEY.s # << >>

\* C9: with a shared secret configured, every request to every route whose
\* x-api-key header is missing or differs from the secret is answered 401
\* unauthorized, no route handler runs and no upstream call is made for it;
\* with no secret configured no request is answered 401.
C9_Gate ==
  (Serving /\ pc # "auth") =>
    IF C9_SecretConfigured /\ req.apiKey # env.API_KEY
      THEN /\ pc = "done"
           /\ res.status = 401
           /\ res.body.error = "unauthorized"
           /\ calls = << >> /\ tok = TokIdle /\ gb = Null
           /\ finalBuckets = << >> /\ results = << >>
      ELSE res = Null \/ res.status # 401

C9_Witness ==
  /\ Serving /\ pc = "done"
  /\ req.route = "GET /health"
  /\ req.apiKey = WrongSecret
  /\ res.status = 401

\* Without a configured secret a request with no header is served.
C9_OpenWitness ==
  /\ Serving /\ pc = "done"
  /\ ~C9_SecretConfigured
  /\ req.apiKey = Undefined
  /\ req.route = "POST /comps/ebay"
  /\ res.status = 200


\* ---- C11 ----
\* A bucket token that bucketKeywords maps to search terms.
C11_Recognised(bucket) ==
  \/ bucket = << "R", "A", "W" >>
  \/ \E g \in { << "P", "S", "A", "_" >>, << "B", "G", "S", "_" >>,
                << "S", "G", "C", "_" >>, << "C", "G", "C", "_" >> } :
       Len(bucket) >= Len(g) /\ SubSeq(bucket, 1, Len(g)) = g

\* token is one of the space-separated terms of keywords.
C11_HasTerm(keywords, token) ==
  \E i \in 1..Len(keywords) :
    LET j == i + Len(token) - 1
    IN /\ j <= Len(keywords)
       /\ SubSeq(keywords, i, j) = token
       /\ (i = 1 \/ keywords[i - 1] = " ")
       /\ (j = Len(keywords) \/ keywords[j + 1] = " ")

\* The searches sent for a non-empty bucket token that is not recognised.
C11_UnrecognisedSearches ==
  IF ~Serving THEN {}
  ELSE { k \in 1..Len(calls) :
           /\ calls[k].kind = "search"
           /\ BucketOf(calls[k].b) # << >>
           /\ ~C11_Recognised(BucketOf(calls[k].b)) }

\* C11: for every bucket token that is neither RAW nor prefixed by PSA_, BGS_,
\* SGC_ or CGC_, the keyword string sent to the marketplace search contains the
\* bucket token as a term.
C11_PassThrough ==
  \A k \in C11_UnrecognisedSearches :
    C11_HasTerm(calls[k].keywords, BucketOf(calls[k].b))

\* The part of C11 the code keeps: a request for an unrecognised bucket token
\* is not rejected; it is answered 200 unless an upstream call failed, and its
\* keywords are those of the identity alone.
C11_NotRejected ==
  /\ \A k \in C11_UnrecognisedSearches :
       calls[k].keywords \in { buildBaseKeywords(gb.identity),
                               buildBaseKeywords(C1_Cleared(gb.identity)) }
  /\ ( /\ Serving /\ pc = "done" /\ req.route = "POST /comps/ebay"
       /\ req.body.identity # Undefined
       /\ req.body.bucket = Str(<< "U", "N", "K", "N", "O", "W", "N" >>)
       /\ res.status # 401 )
     => \/ res.status = 200 /\ C11_UnrecognisedSearches # {}
        \/ res.status = 502 /\ (tok.pc = "threw" \/ \E k \in 1..Len(calls) :
                                                    C8_SearchFailed(calls[k]))


\* ---- C12 ----
\* The k-th smallest value of a sample (k = 1 is the minimum), by rank.
C12_Kth(nums, k) ==
  CHOOSE x \in Elems(nums) :
    /\ Cardinality({ i \in 1..Len(nums) : nums[i] < x }) < k
    /\ Cardinality({ i \in 1..Len(nums) : nums[i] <= x }) >= k

\* Elements removed from each end of a sample of n values.
C12_Removed(n) == IF n < 6 THEN 0 ELSE (n * 15) \div 100

\* C12: for every non-empty sample of n all-in prices, trimmedRange returns
\* [min, max] of the whole sample when n < 6, and otherwise the smallest and
\* largest of the values left after removing floor(n * 0.15) elements from each
\* end of the sorted sample (1 from each end for n = 10); the pair [lo, hi]
\* satisfies min <= lo <= median <= hi <= max; the input sequence is unmodified.
C12_TrimmedRange ==
  trStage \in { "ranged", "returned" } =>
    LET n == Len(trIn)
        lo == trOut[1]
        hi == trOut[2]
    IN /\ Len(trOut) = 2
       /\ lo = C12_Kth(trIn, C12_Removed(n) + 1)
       /\ hi = C12_Kth(trIn, n - C12_Removed(n))
       /\ n = 10 => lo = C12_Kth(trIn, 2) /\ hi = C12_Kth(trIn, 9)
       /\ n < 6 => lo = C12_Kth(trIn, 1) /\ hi = C12_Kth(trIn, n)
       /\ C12_Kth(trIn, 1) <= lo /\ lo <= hi /\ hi <= C12_Kth(trIn, n)
       /\ trNums = trIn
       /\ trStage = "returned" =>
            /\ lo * medOut[1].den <= medOut[1].num
            /\ medOut[1].num <= hi * medOut[1].den

\* A sample of 10 prices whose ends are trimmed away: the range returned is
\* strictly inside [min, max], and the array as passed was not sorted.
C12_Witness ==
  /\ trStage = "returned" /\ Len(trIn) = 10
  /\ trOut[1] > C12_Kth(trIn, 1) /\ trOut[2] < C12_Kth(trIn, 10)
  /\ trOut[1] < trOut[2]
  /\ \E i \in 1..9 : trIn[i] > trIn[i + 1]
  /\ trNums = trIn

\* A thin sample (4 prices) is returned untrimmed.
C12_ThinWitness ==
  /\ trStage = "returned" /\ Len(trIn) = 4
  /\ trOut = << C12_Kth(trIn, 1), C12_Kth(trIn, 4) >> /\ trOut[1] < trOut[2]


\* ---- C13 ----
\* The successful token responses received so far, in order of arrival.
C13_Responses == SelectSeq(calls, LAMBDA c : c.kind = "token_response")

\* The cache contents that one response, received at its time, gives.
C13_CacheOf(r) ==
  [ accessToken |-> r.access_token, expiresAtMs |-> r.at + r.expires_in * 1000 ]

\* The responses caller p received.
C13_ResponsesTo(p) ==
  { k \in 1..Len(C13_Responses) : C13_Responses[k].caller = p }

\* C13: under every interleaving of concurrent getEbayAppToken calls, the
\* token cache is written only on a successful token response, its accessToken
\* and expiresAtMs come from one and the same response, a failed refresh leaves
\* the cache unchanged (the cache is always that of the last response received,
\* or empty before the first), and every call returns either the cached token
\* or the token of its own refresh response.
C13_ConcurrentRefresh ==
  flights # << >> =>
    /\ tokenCache = IF C13_Responses = << >> THEN [ accessToken |-> Null, expiresAtMs |-> 0 ]
                    ELSE C13_CacheOf(C13_Responses[Len(C13_Responses)])
    /\ \A p \in DOMAIN flights :
         LET f == flights[p]
         IN /\ f.pc = "returned" =>
                 \/ /\ f.source = "cache"
                    /\ f.ret = f.cacheAt.accessToken /\ f.ret # Null
                    /\ f.cacheAt.expiresAtMs - f.checkedAt > 60000
                    /\ \E k \in 1..Len(C13_Responses) :
                         f.cacheAt = C13_CacheOf(C13_Responses[k])
                    /\ C13_ResponsesTo(p) = {}
                 \/ /\ f.source = "upstream"
                    /\ \E k \in C13_ResponsesTo(p) :
                         /\ C13_ResponsesTo(p) = { k }
                         /\ f.ret = C13_Responses[k].access_token
                         /\ f.wroteAt = C13_Responses[k].at
            /\ f.pc = "threw" => f.ret = Null /\ C13_ResponsesTo(p) = {}
            /\ f.pc \in { "idle", "called", "await" } => C13_ResponsesTo(p) = {}

\* Three callers found no token and refreshed at once; two were answered with
\* different lifetimes, the third failed after them: the cache is that of the
\* response received last.
C13_Witness ==
  /\ flights # << >>
  /\ Len(calls) = 5
  /\ \A k \in 1..3 : calls[k].kind = "token"
  /\ \E p, q, r \in DOMAIN flights :
       /\ flights[p].pc = "returned" /\ flights[p].source = "upstream"
       /\ flights[q].pc = "returned" /\ flights[q].source = "upstream"
       /\ flights[r].pc = "threw" /\ flights[r].source = "upstream"
       /\ calls[4].caller = p /\ calls[5].caller = q /\ p # q
       /\ calls[4].expires_in # calls[5].expires_in
       /\ tokenCache.accessToken = flights[q].ret
       /\ tokenCache.accessToken # flights[p].ret

\* A caller returned the cached token while another caller's refresh was in
\* flight, which has since replaced the cache.
C13_CachedWitness ==
  /\ flights # << >>
  /\ \E p, q \in DOMAIN flights :
       /\ flights[p].pc = "returned" /\ flights[p].source = "cache"
       /\ flights[q].pc = "returned" /\ flights[q].source = "upstream"
       /\ flights[q].checkedAt <= flights[p].checkedAt
       /\ tokenCache.accessToken = flights[q].ret
       /\ flights[p].ret # tokenCache.accessToken


\* ---- C14 ----
\* The all-in prices of the valid listings of a response, in order.
C14_Prices(items) ==
  LET kept == SelectSeq(items, ValidListing)
  IN [ i \in 1..Len(kept) |-> C5_SumFiniteShipping(kept[i]).v ]

\* C14: when the fallback ran, the comps of the first search are discarded:
\* sampleSize, the summary and the returned comps are computed from the
\* broadened search's comps alone, so that sampleSize can be smaller than the
\* number of valid comps the first search found.
C14_FallbackReplaces ==
  (HasLast /\ Len(Searches(Last)) = 2) =>
    LET first == Searches(Last)[1].items
        second == Searches(Last)[2].items
        r == LastResult
    IN /\ Len(ValidIds(first)) < 6
       /\ r.summary.sampleSize = Len(ValidIds(second))
       /\ [ i \in 1..Len(r.comps) |-> r.comps[i].itemId ]
            = SubSeq(ValidIds(second), 1,
                     IF Len(ValidIds(second)) < 12 THEN Len(ValidIds(second)) ELSE 12)
       /\ [ i \in 1..Len(r.comps) |-> r.comps[i].allIn.v ]
            = SubSeq(C14_Prices(second), 1, Len(r.comps))
       /\ IF ValidIds(second) = << >>
            THEN /\ r.summary.medianAllIn = [ num |-> 0, den |-> 1 ]
                 /\ r.summary.rangeAllIn = << 0, 0 >>
                 /\ r.summary.confidence = "low"
            ELSE /\ r.summary.medianAllIn = median(C14_Prices(second))
                 /\ r.summary.rangeAllIn = trimmedRange(C14_Prices(second))
                 /\ r.summary.confidence = confidenceFromSample(Len(ValidIds(second)))

\* 5 valid comps found first, none after broadening: sampleSize 0 is reported
\* and no comp is returned.
C14_Witness ==
  /\ HasLast /\ Len(Searches(Last)) = 2
  /\ Len(ValidIds(Searches(Last)[1].items)) = 5
  /\ ValidIds(Searches(Last)[2].items) = << >>
  /\ LastResult.summary.sampleSize = 0
  /\ LastResult.comps = << >>
  /\ LastResult.queryUsed.loosened

====
